---- MODULE Spec2Model ----
(***************************************************************************)
(* Model of the /generate_audio handler of src/app.py (generate_audio):    *)
(* base64 payload -> temporary .wav file -> birdnetlib Analyzer/Recording  *)
(* -> confidence filter -> max -> text response.  Each request is a        *)
(* process whose program counter walks the handler line by line; the       *)
(* temp directory is the only state requests share.                        *)
(***************************************************************************)
EXTENDS Integers, Sequences, FiniteSets, TLC

\* ------------------------------------------------------------------ bounds
NumReq == 2            \* concurrent requests served by the process
MaxLen == 4            \* longest audio_base64 string tried
MaxDet == 3            \* longest detection list the backend returns

Requests == 1..NumReq
Paths == 1..NumReq     \* names tempfile can hand out; one per request suffices

\* ------------------------------------------------------- values of the code
CONF_FLOOR == 50       \* 0.5, in hundredths
MIN_CONF == 25         \* 0.25, in hundredths

NoneVal == [tag |-> "None", s |-> <<>>]
Str(s) == [tag |-> "str", s |-> s]

RECURSIVE SeqsUpTo(_, _)
SeqsUpTo(S, n) ==
    IF n = 0 THEN {<<>>}
    ELSE LET shorter == SeqsUpTo(S, n - 1)
         IN  shorter \cup {Append(t, x) : t \in {u \in shorter : Len(u) = n - 1}, x \in S}

\* characters a payload is built from: a base64 digit, the pad, a foreign one
PayloadChars == {"Q", "=", "!"}
AllPayloads == {NoneVal} \cup {Str(s) : s \in SeqsUpTo(PayloadChars, MaxLen)}
BasePayloads == {NoneVal, Str(<<>>), Str(<<"Q">>), Str(<<"Q", "Q", "=", "=">>)}

Species ==
    {[common_name |-> "Eurasian Blackbird", scientific_name |-> "Turdus merula"],
     [common_name |-> "European Robin", scientific_name |-> "Erithacus rubecula"]}
Confs == {30, 50, 91}
Detections ==
    {[common_name |-> sp.common_name, scientific_name |-> sp.scientific_name,
      confidence |-> c] : sp \in Species, c \in Confs}
AllResults == SeqsUpTo(Detections, MaxDet)
\* nothing, one detection below the floor, or one exactly at it
BaseResults ==
    SeqsUpTo({d \in Detections : d.common_name = "Eurasian Blackbird" /\ d.confidence <= CONF_FLOOR}, 1)

NoDetection == [common_name |-> "", scientific_name |-> "", confidence |-> 0]
NoRecording == [analyzed |-> FALSE, min_conf |-> 0, audio |-> <<>>, detections |-> <<>>]
NoFile == [exists |-> FALSE, data |-> <<>>, owner |-> 0]
NoResponse == [status |-> 0, key |-> "", msg |-> "", common_name |-> "",
               scientific_name |-> "", percent_tenths |-> 0]

VARIABLES
    pc,               \* where each request is in generate_audio
    audio_base64,     \* data.get("audio_base64")
    audio_bytes,      \* the decoded bytes
    temp_audio,       \* name of the file NamedTemporaryFile opened (0: none)
    temp_audio_path,  \* the local of line 151 (0: unassigned)
    analyzer,         \* handle of the Analyzer the request built (0: none)
    recording,        \* the Recording and its detections
    detections,       \* the filtered list of line 160
    best,             \* the detection of line 167
    exc,              \* the exception in flight ("": none)
    response,         \* what the handler returned
    stages,           \* the pipeline stages the request has entered, in order
    fs,               \* the temp directory: name -> file
    analyzerInits     \* how many times Analyzer() ran in this process

vars == <<pc, audio_base64, audio_bytes, temp_audio, temp_audio_path, analyzer,
          recording, detections, best, exc, response, stages, fs, analyzerInits>>

\* ------------------------------------------------------------ base64.b64decode
B64Index(c) == IF c = "Q" THEN 16 ELSE 64     \* 64 and above: not a base64 digit

DecodeError == [ok |-> FALSE, bytes |-> <<>>]
Decoded(out) == [ok |-> TRUE, bytes |-> out]

\* binascii.a2b_base64 in its non-strict mode, which b64decode(validate=False) calls
RECURSIVE a2b_base64(_, _, _, _, _, _)
a2b_base64(s, i, quad_pos, leftchar, pads, out) ==
    IF i > Len(s)
    THEN IF quad_pos /= 0 THEN DecodeError ELSE Decoded(out)
    ELSE IF s[i] = "="
    THEN IF quad_pos >= 2 /\ quad_pos + pads + 1 >= 4
         THEN Decoded(out)
         ELSE a2b_base64(s, i + 1, quad_pos, leftchar,
                         IF quad_pos >= 2 THEN pads + 1 ELSE pads, out)
    ELSE LET this_ch == B64Index(s[i]) IN
         IF this_ch >= 64
         THEN a2b_base64(s, i + 1, quad_pos, leftchar, pads, out)
         ELSE CASE quad_pos = 0 ->
                     a2b_base64(s, i + 1, 1, this_ch, 0, out)
                [] quad_pos = 1 ->
                     a2b_base64(s, i + 1, 2, this_ch % 16, 0,
                                Append(out, (leftchar * 4 + this_ch \div 16) % 256))
                [] quad_pos = 2 ->
                     a2b_base64(s, i + 1, 3, this_ch % 4, 0,
                                Append(out, (leftchar * 16 + this_ch \div 4) % 256))
                [] OTHER ->
                     a2b_base64(s, i + 1, 0, 0, 0,
                                Append(out, (leftchar * 64 + this_ch) % 256))

b64decode(s) == a2b_base64(s, 1, 0, 0, 0, <<>>)

FalsyNoneOnly(v) == v.tag = "None"
\* Python truthiness of data.get("audio_base64"): None and "" are falsy
Falsy(v) == v.tag = "None" \/ v.s = <<>>

Init ==
    /\ pc = [r \in Requests |-> "idle"]
    /\ audio_base64 = [r \in Requests |-> NoneVal]
    /\ audio_bytes = [r \in Requests |-> <<>>]
    /\ temp_audio = [r \in Requests |-> 0]
    /\ temp_audio_path = [r \in Requests |-> 0]
    /\ analyzer = [r \in Requests |-> 0]
    /\ recording = [r \in Requests |-> NoRecording]
    /\ detections = [r \in Requests |-> <<>>]
    /\ best = [r \in Requests |-> NoDetection]
    /\ exc = [r \in Requests |-> ""]
    /\ response = [r \in Requests |-> NoResponse]
    /\ stages = [r \in Requests |-> <<>>]
    /\ fs = [p \in Paths |-> NoFile]
    /\ analyzerInits = 0

\* ------------------------------------------------------------ the responses
ErrorResponse(status, msg) ==
    [status |-> status, key |-> "error", msg |-> msg, common_name |-> "",
     scientific_name |-> "", percent_tenths |-> 0]

NotProvidedResponse == ErrorResponse(400, "audio_base64 not provided")

\* except Exception as e: the message carries str(e)
ServerErrorResponse(e) == ErrorResponse(500, e)

AdvisoryAsError ==
    [status |-> 404, key |-> "error", msg |-> "no birds detected or recording too noisy/short",
     common_name |-> "", scientific_name |-> "", percent_tenths |-> 0]
\* lines 163-165: the fixed advisory text, in a 200 response
AdvisoryResponse ==
    [status |-> 200, key |-> "response", msg |-> "no birds detected or recording too noisy/short",
     common_name |-> "", scientific_name |-> "", percent_tenths |-> 0]

\* round(confidence * 100, 1): a percentage with one decimal, kept in tenths
BestResponse(d) ==
    [status |-> 200, key |-> "response", msg |-> "BirdNET",
     common_name |-> d.common_name, scientific_name |-> d.scientific_name,
     percent_tenths |-> d.confidence * 10]

\* ------------------------------------------------------------ the selection
FilterStrict(ds) == SelectSeq(ds, LAMBDA d : d.confidence > CONF_FLOOR)
FilterMinConf(ds) == SelectSeq(ds, LAMBDA d : d.confidence >= MIN_CONF)
\* [d for d in recording.detections if d["confidence"] >= 0.5]
Filter(ds) == SelectSeq(ds, LAMBDA d : d.confidence >= CONF_FLOOR)

RECURSIVE MaxFromLast(_, _, _)
MaxFromLast(ds, i, cur) ==
    IF i > Len(ds) THEN cur
    ELSE MaxFromLast(ds, i + 1, IF ds[i].confidence >= cur.confidence THEN ds[i] ELSE cur)
\* max(detections, key=...): the running maximum is replaced only by a greater key
RECURSIVE MaxFrom(_, _, _)
MaxFrom(ds, i, cur) ==
    IF i > Len(ds) THEN cur
    ELSE MaxFrom(ds, i + 1, IF ds[i].confidence > cur.confidence THEN ds[i] ELSE cur)

PyMax(ds) == MaxFrom(ds, 2, ds[1])

\* ------------------------------------------------------------ the environment
AnyName(fsys) == Paths
\* NamedTemporaryFile opens with O_EXCL: the name it picks is not in use
FreshNames(fsys) == {p \in Paths : ~fsys[p].exists}

SharedHandle(n) == 1
\* Analyzer(): a new object each time it is called
NewHandle(n) == n + 1

SwallowedByFinally(e) == "filter"
\* where control goes after the finally block: on to line 160, or up to except
AfterFinally(e) == IF e = "" THEN "filter" ELSE "except"

\* ------------------------------------------------------------ the handler
\* lines 140-145: read the field, answer 400 when it is missing or empty
Receive(r, payloads) ==
    /\ pc[r] = "idle"
    /\ \E p \in payloads :
          /\ audio_base64' = [audio_base64 EXCEPT ![r] = p]
          /\ IF Falsy(p)
             THEN /\ response' = [response EXCEPT ![r] = NotProvidedResponse]
                  /\ pc' = [pc EXCEPT ![r] = "done"]
             ELSE /\ pc' = [pc EXCEPT ![r] = "b64decode"]
                  /\ UNCHANGED response
    /\ UNCHANGED <<audio_bytes, temp_audio, temp_audio_path, analyzer, recording,
                   detections, best, exc, stages, fs, analyzerInits>>

\* line 147
Decode(r) ==
    /\ pc[r] = "b64decode"
    /\ stages' = [stages EXCEPT ![r] = Append(@, "decode")]
    /\ LET res == b64decode(audio_base64[r].s) IN
       IF res.ok
       THEN /\ audio_bytes' = [audio_bytes EXCEPT ![r] = res.bytes]
            /\ pc' = [pc EXCEPT ![r] = "mktemp"]
            /\ UNCHANGED exc
       ELSE /\ exc' = [exc EXCEPT ![r] = "binascii.Error"]
            /\ pc' = [pc EXCEPT ![r] = "except"]
            /\ UNCHANGED audio_bytes
    /\ UNCHANGED <<audio_base64, temp_audio, temp_audio_path, analyzer, recording,
                   detections, best, response, fs, analyzerInits>>

\* line 149: the file is created empty, or the call raises and creates nothing
MkTemp(r) ==
    /\ pc[r] = "mktemp"
    /\ \/ \E p \in FreshNames(fs) :
             /\ fs' = [fs EXCEPT ![p] = [exists |-> TRUE, data |-> <<>>, owner |-> r]]
             /\ temp_audio' = [temp_audio EXCEPT ![r] = p]
             /\ pc' = [pc EXCEPT ![r] = "write"]
             /\ UNCHANGED exc
       \/ /\ exc' = [exc EXCEPT ![r] = "OSError"]
          /\ pc' = [pc EXCEPT ![r] = "except"]
          /\ UNCHANGED <<fs, temp_audio>>
    /\ UNCHANGED <<audio_base64, audio_bytes, temp_audio_path, analyzer, recording,
                   detections, best, response, stages, analyzerInits>>

\* lines 150-151 and the end of the with block (delete=False: closing keeps the file)
Write(r) ==
    /\ pc[r] = "write"
    /\ \/ /\ fs' = [fs EXCEPT ![temp_audio[r]].data = audio_bytes[r]]
          /\ temp_audio_path' = [temp_audio_path EXCEPT ![r] = temp_audio[r]]
          /\ pc' = [pc EXCEPT ![r] = "analyzer"]
          /\ UNCHANGED exc
       \/ /\ exc' = [exc EXCEPT ![r] = "OSError"]
          /\ pc' = [pc EXCEPT ![r] = "except"]
          /\ UNCHANGED <<fs, temp_audio_path>>
    /\ UNCHANGED <<audio_base64, audio_bytes, temp_audio, analyzer, recording,
                   detections, best, response, stages, analyzerInits>>

\* line 154
NewAnalyzer(r) ==
    /\ pc[r] = "analyzer"
    /\ \/ /\ analyzer' = [analyzer EXCEPT ![r] = NewHandle(analyzerInits)]
          /\ analyzerInits' = analyzerInits + 1
          /\ pc' = [pc EXCEPT ![r] = "analyze"]
          /\ UNCHANGED exc
       \/ /\ exc' = [exc EXCEPT ![r] = "AnalyzerError"]
          /\ pc' = [pc EXCEPT ![r] = "remove"]
          /\ UNCHANGED <<analyzer, analyzerInits>>
    /\ UNCHANGED <<audio_base64, audio_bytes, temp_audio, temp_audio_path, recording,
                   detections, best, response, stages, fs>>

\* lines 155-156: the backend reads the file and returns its detections, or raises
Analyze(r, results) ==
    /\ pc[r] = "analyze"
    /\ stages' = [stages EXCEPT ![r] = Append(@, "infer")]
    /\ pc' = [pc EXCEPT ![r] = "remove"]
    /\ IF ~fs[temp_audio_path[r]].exists
       THEN /\ exc' = [exc EXCEPT ![r] = "FileNotFoundError"]
            /\ UNCHANGED recording
       ELSE \/ \E ds \in results :
                  /\ recording' = [recording EXCEPT ![r] =
                         [analyzed |-> TRUE, min_conf |-> MIN_CONF,
                          audio |-> fs[temp_audio_path[r]].data, detections |-> ds]]
                  /\ UNCHANGED exc
            \/ /\ exc' = [exc EXCEPT ![r] = "BackendError"]
               /\ UNCHANGED recording
    /\ UNCHANGED <<audio_base64, audio_bytes, temp_audio, temp_audio_path, analyzer,
                   detections, best, response, fs, analyzerInits>>

\* line 158, the finally block; it runs with or without an exception in flight
Remove(r) ==
    /\ pc[r] = "remove"
    /\ IF fs[temp_audio_path[r]].exists
       THEN /\ fs' = [fs EXCEPT ![temp_audio_path[r]] = NoFile]
            /\ pc' = [pc EXCEPT ![r] = AfterFinally(exc[r])]
            /\ UNCHANGED exc
       ELSE /\ exc' = [exc EXCEPT ![r] = "FileNotFoundError"]
            /\ pc' = [pc EXCEPT ![r] = "except"]
            /\ UNCHANGED fs
    /\ UNCHANGED <<audio_base64, audio_bytes, temp_audio, temp_audio_path, analyzer,
                   recording, detections, best, response, stages, analyzerInits>>

\* lines 160-165
FilterStep(r) ==
    /\ pc[r] = "filter"
    /\ LET kept == Filter(recording[r].detections) IN
       /\ detections' = [detections EXCEPT ![r] = kept]
       /\ IF kept = <<>>
          THEN /\ response' = [response EXCEPT ![r] = AdvisoryResponse]
               /\ stages' = [stages EXCEPT ![r] = Append(Append(@, "select"), "format")]
               /\ pc' = [pc EXCEPT ![r] = "done"]
          ELSE /\ stages' = [stages EXCEPT ![r] = Append(@, "select")]
               /\ pc' = [pc EXCEPT ![r] = "max"]
               /\ UNCHANGED response
    /\ UNCHANGED <<audio_base64, audio_bytes, temp_audio, temp_audio_path, analyzer,
                   recording, best, exc, fs, analyzerInits>>

\* line 167
MaxStep(r) ==
    /\ pc[r] = "max"
    /\ best' = [best EXCEPT ![r] = PyMax(detections[r])]
    /\ pc' = [pc EXCEPT ![r] = "format"]
    /\ UNCHANGED <<audio_base64, audio_bytes, temp_audio, temp_audio_path, analyzer,
                   recording, detections, exc, response, stages, fs, analyzerInits>>

\* lines 168-175
FormatStep(r) ==
    /\ pc[r] = "format"
    /\ response' = [response EXCEPT ![r] = BestResponse(best[r])]
    /\ stages' = [stages EXCEPT ![r] = Append(@, "format")]
    /\ pc' = [pc EXCEPT ![r] = "done"]
    /\ UNCHANGED <<audio_base64, audio_bytes, temp_audio, temp_audio_path, analyzer,
                   recording, detections, best, exc, fs, analyzerInits>>

\* lines 177-179
Except(r) ==
    /\ pc[r] = "except"
    /\ response' = [response EXCEPT ![r] = ServerErrorResponse(exc[r])]
    /\ pc' = [pc EXCEPT ![r] = "done"]
    /\ UNCHANGED <<audio_base64, audio_bytes, temp_audio, temp_audio_path, analyzer,
                   recording, detections, best, exc, stages, fs, analyzerInits>>

\* concurrent requests, a handful of representative payloads and backend results
Next ==
    \E r \in Requests :
        \/ Receive(r, BasePayloads)
        \/ Decode(r)
        \/ MkTemp(r)
        \/ Write(r)
        \/ NewAnalyzer(r)
        \/ Analyze(r, BaseResults)
        \/ Remove(r)
        \/ FilterStep(r)
        \/ MaxStep(r)
        \/ FormatStep(r)
        \/ Except(r)

Spec == Init /\ [][Next]_vars

\* one request, every payload up to MaxLen
NextInput ==
    \/ Receive(1, AllPayloads)
    \/ Decode(1)
    \/ MkTemp(1)
    \/ Write(1)
    \/ NewAnalyzer(1)
    \/ Analyze(1, BaseResults)
    \/ Remove(1)
    \/ FilterStep(1)
    \/ MaxStep(1)
    \/ FormatStep(1)
    \/ Except(1)

SpecInput == Init /\ [][NextInput]_vars

\* one request, every detection list up to MaxDet
NextSel ==
    \/ Receive(1, BasePayloads)
    \/ Decode(1)
    \/ MkTemp(1)
    \/ Write(1)
    \/ NewAnalyzer(1)
    \/ Analyze(1, AllResults)
    \/ Remove(1)
    \/ FilterStep(1)
    \/ MaxStep(1)
    \/ FormatStep(1)
    \/ Except(1)

SpecSel == Init /\ [][NextSel]_vars

\* ------------------------------------------------------------ vocabulary of the claims
Done(r) == pc[r] = "done"

\* the backend ran and returned; the filter of line 160 has run on its result
Selected(r) == pc[r] \in {"max", "format", "done"} /\ recording[r].analyzed /\ exc[r] = ""

AllBelowFloor(ds) == \A i \in DOMAIN ds : ds[i].confidence < CONF_FLOOR

\* the NoDetection rendering: a success body that names no species
IsAdvisory(resp) == resp.status = 200 /\ resp.key = "response" /\ resp.common_name = ""

IsBest(resp) == resp.status = 200 /\ resp.key = "response" /\ resp.common_name /= ""

IsFailure(resp) == resp.status >= 400 /\ resp.key = "error"

Renders(resp, d) ==
    /\ IsBest(resp)
    /\ resp.common_name = d.common_name
    /\ resp.scientific_name = d.scientific_name
    /\ resp.percent_tenths = d.confidence * 10

\* index of the first detection that is at or above the floor and has the greatest confidence
FirstMaxIndex(ds) ==
    CHOOSE i \in DOMAIN ds :
        /\ ds[i].confidence >= CONF_FLOOR
        /\ \A j \in DOMAIN ds : ds[j].confidence <= ds[i].confidence
        /\ \A j \in 1..(i - 1) : ds[j].confidence < ds[i].confidence

\* RFC 4648 text: digits and pads only, whole quads, at most two pads, all at the end
ValidBase64(s) ==
    /\ Len(s) % 4 = 0
    /\ \A i \in DOMAIN s : s[i] = "=" \/ B64Index(s[i]) < 64
    /\ \A i \in DOMAIN s : s[i] = "=" => (i > Len(s) - 2 /\ \A j \in i..Len(s) : s[j] = "=")

InputInvalid(v) == v.tag = "None" \/ v.s = <<>> \/ ~ValidBase64(v.s)

FailureClass(r) ==
    IF InputInvalid(audio_base64[r]) THEN "input"
    ELSE IF exc[r] \in {"AnalyzerError", "BackendError"} THEN "backend"
    ELSE IF exc[r] /= "" THEN "internal"
    ELSE "none"

HoldsFile(r) == pc[r] \in {"write", "analyzer", "analyze", "remove"}

StageOrder == <<"decode", "infer", "select", "format">>

IsPrefix(s, t) == Len(s) <= Len(t) /\ \A i \in DOMAIN s : s[i] = t[i]

\* ------------------------------------------------------------ the claims

\* C1: once selection has run on the backend's detections, the request ends in the
\* advisory "no detection" response if and only if every detection is strictly below
\* the floor; a detection exactly at the floor is eligible, an empty list gives none.
C1_NoneIffAllBelowFloor ==
    \A r \in Requests :
        Selected(r) =>
            ((Done(r) /\ IsAdvisory(response[r])) <=> AllBelowFloor(recording[r].detections))

C1_Witness ==
    /\ Done(1)
    /\ Selected(1)
    /\ recording[1].detections /= <<>>
    /\ \A i \in DOMAIN recording[1].detections :
           recording[1].detections[i].confidence <= CONF_FLOOR
    /\ \E i \in DOMAIN recording[1].detections :
           recording[1].detections[i].confidence = CONF_FLOOR
    /\ IsBest(response[1])

\* C2: when some detection is at or above the floor, the detection handed to formatting
\* is an element of the detection list, is at or above the floor and has the greatest
\* confidence of the filtered list; nothing below the floor is ever formatted.
C2_BestIsMaxAboveFloor ==
    \A r \in Requests :
        /\ (pc[r] \in {"format", "done"} /\ Selected(r)
              /\ ~AllBelowFloor(recording[r].detections)) =>
              /\ \E i \in DOMAIN recording[r].detections : recording[r].detections[i] = best[r]
              /\ best[r].confidence >= CONF_FLOOR
              /\ \A i \in DOMAIN recording[r].detections :
                     recording[r].detections[i].confidence <= best[r].confidence
              /\ Done(r) => Renders(response[r], best[r])
        /\ (Done(r) /\ IsBest(response[r])) => response[r].percent_tenths >= CONF_FLOOR * 10

C2_Witness ==
    /\ Done(1)
    /\ Selected(1)
    /\ \E i, j, k \in DOMAIN recording[1].detections :
           /\ recording[1].detections[i].confidence < CONF_FLOOR
           /\ recording[1].detections[j].confidence = CONF_FLOOR
           /\ recording[1].detections[k].confidence > CONF_FLOOR
           /\ Renders(response[1], recording[1].detections[k])

\* C3: when several detections at or above the floor share the greatest confidence,
\* exactly one is selected: the first of them in the backend's ordering.
C3_TieGoesToFirst ==
    \A r \in Requests :
        (pc[r] \in {"format", "done"} /\ Selected(r)
           /\ ~AllBelowFloor(recording[r].detections)) =>
            /\ best[r] = recording[r].detections[FirstMaxIndex(recording[r].detections)]
            /\ Done(r) =>
                  Renders(response[r],
                          recording[r].detections[FirstMaxIndex(recording[r].detections)])

C3_Witness ==
    /\ Done(1)
    /\ Selected(1)
    /\ Len(recording[1].detections) >= 2
    /\ ~AllBelowFloor(recording[1].detections)
    /\ \E i, j \in DOMAIN recording[1].detections :
           /\ i < j
           /\ i = FirstMaxIndex(recording[1].detections)
           /\ recording[1].detections[i].confidence = recording[1].detections[j].confidence
           /\ recording[1].detections[i].common_name /= recording[1].detections[j].common_name
           /\ Renders(response[1], recording[1].detections[i])

\* C4: when a request has returned its response, the temp file it created is gone,
\* whichever way the request ended.
C4_TempFileRemovedOnEveryExit ==
    \A r \in Requests :
        Done(r) => \A p \in Paths : ~(fs[p].exists /\ fs[p].owner = r)

C6_InvalidInputIsClientError ==
    \A r \in Requests :
        Done(r) =>
            /\ FailureClass(r) = "input" => response[r].status \in 400..499
            /\ \A q \in Requests :
                  (Done(q) /\ FailureClass(q) /= "none" /\ FailureClass(r) /= "none"
                     /\ FailureClass(q) /= FailureClass(r)) =>
                      response[q].status /= response[r].status

\* C7: a backend run that returned nothing at or above the floor ends in the advisory
\* success response, never an error; a request whose backend did not return a result
\* never ends in the advisory response.
C7_NoDetectionIsSuccess ==
    \A r \in Requests :
        Done(r) =>
            /\ (recording[r].analyzed /\ exc[r] = "" /\ AllBelowFloor(recording[r].detections)) =>
                  (IsAdvisory(response[r]) /\ ~IsFailure(response[r]))
            /\ (~recording[r].analyzed \/ exc[r] /= "") => ~IsAdvisory(response[r])

C7_Witness ==
    \E r \in Requests :
        /\ Done(r)
        /\ recording[r].analyzed
        /\ recording[r].detections /= <<>>
        /\ AllBelowFloor(recording[r].detections)
        /\ IsAdvisory(response[r])

C9_StagesInOrderAndShortCircuit ==
    \A r \in Requests :
        /\ IsPrefix(stages[r], StageOrder)
        /\ exc[r] /= "" =>
              /\ pc[r] \in {"remove", "except", "done"}
              /\ stages[r] \in {<<"decode">>, <<"decode", "infer">>}
              /\ exc[r] \in {"binascii.Error", "OSError", "AnalyzerError"} =>
                    stages[r] = <<"decode">>
              /\ best[r] = NoDetection
              /\ Done(r) => (IsFailure(response[r]) /\ response[r].status = 500)
        /\ (Done(r) /\ (IsBest(response[r]) \/ IsAdvisory(response[r]))) =>
              (exc[r] = "" /\ stages[r] = StageOrder)

C9_Witness ==
    \E r \in Requests :
        /\ Done(r)
        /\ exc[r] = "BackendError"
        /\ stages[r] = <<"decode", "infer">>
        /\ response[r].status = 500

\* C10: under any interleaving each request has a temp file of its own, that file holds
\* its own decoded bytes until it removes it, the backend reads exactly those bytes, and
\* the response is the one the request's own input and own failures determine.
C10_RequestsAreIsolated ==
    \A r \in Requests :
        /\ HoldsFile(r) => (fs[temp_audio[r]].exists /\ fs[temp_audio[r]].owner = r)
        /\ pc[r] \in {"analyzer", "analyze", "remove"} =>
              (temp_audio_path[r] = temp_audio[r] /\ fs[temp_audio_path[r]].data = audio_bytes[r])
        /\ \A q \in Requests :
              (q /= r /\ HoldsFile(r) /\ HoldsFile(q)) => temp_audio[q] /= temp_audio[r]
        /\ recording[r].analyzed => recording[r].audio = audio_bytes[r]
        /\ exc[r] /= "FileNotFoundError"
        /\ Done(r) =>
              IF audio_base64[r].tag = "None" \/ audio_base64[r].s = <<>>
              THEN response[r].status = 400
              ELSE IF exc[r] /= ""
              THEN response[r].status = 500 /\ response[r].msg = exc[r]
              ELSE IF AllBelowFloor(recording[r].detections)
              THEN IsAdvisory(response[r])
              ELSE Renders(response[r],
                           recording[r].detections[FirstMaxIndex(recording[r].detections)])

C10_Witness ==
    \E r, q \in Requests :
        /\ r /= q
        /\ pc[r] = "remove"
        /\ exc[r] = "BackendError"
        /\ pc[q] = "remove"
        /\ recording[q].analyzed
        /\ fs[temp_audio[r]].exists
        /\ fs[temp_audio[q]].exists

====
